---- MODULE Spec2Model ----
(***************************************************************************)
(* Model of backend.py: the /chat routing pipeline, the session table with *)
(* its opportunistic sweep, the hot-reloaded configuration bundle and the  *)
(* admin endpoints.                                                        *)
(*                                                                         *)
(* Texts (messages, keywords, patterns) are sequences of one-character     *)
(* strings, so that str.lower, str.strip and the `in` substring test are   *)
(* computed as Python computes them.  Replies, templates and model outputs *)
(* are sequences of string tokens, concatenated with \o as the f-strings   *)
(* concatenate them.  JSON values of mixed type are tagged records.        *)
(***************************************************************************)
EXTENDS Integers, Sequences, FiniteSets, Bags, TLC

VARIABLES
    files,          \* content of the nine files under CONFIG_DIR
    stale,          \* some file's mtime differs from Config.mtimes
    CFG,            \* Config.data, the loaded bundle
    PATS,           \* the module-level compiled patterns
    chat_sessions,  \* the session table, entries under caller-chosen ids
    anon,           \* the session table, entries under uuid4 ids: bag of ts
    now,            \* time.time()
    issued,         \* uuid4 ids drawn by id-less requests
    resp,           \* the request served by the last step and its response
    reported,       \* per id: "live" when a response has carried end = true and
                    \* the record it was read from is still in the table,
                    \* "swept" when that record has been deleted, else "no"
    inflight        \* the /chat requests suspended at `await request.json()`:
                    \* pairs <<slot, message>>

vars == <<files, stale, CFG, PATS, chat_sessions, anon, now, issued, resp, reported,
          inflight>>

(***************************************************************************)
(* Bounds of the model.                                                    *)
(***************************************************************************)
\* id-less /status calls explored per behaviour
MaxAnonCalls == 1
\* configuration files that differ from the initial ones at any time
MaxWrites == 1
\* clock advances explored per behaviour
MaxTicks == 1
\* settings.max_turns of the configuration the sessions run under
CfgMaxTurns == 2
\* /chat requests that can be suspended at the same time
MaxInflight == 2
\* turn-consuming FAQ calls are explored up to one turn past max_turns
TurnsCap == CfgMaxTurns + 1

(***************************************************************************)
(* Program constants.                                                      *)
(***************************************************************************)
TTL == 3600
SweepEvery == 100
DefaultMaxTurns == 5
\* classify_confidence default 0.4; confidences are in units of 1/10000
DefaultConfThr == 4000

(***************************************************************************)
(* Text primitives.                                                        *)
(***************************************************************************)
UpperOf == [c \in {"c", "k", "f", "h", "w", "p", "x"} |->
              CASE c = "c" -> "C" [] c = "k" -> "K" [] c = "f" -> "F"
                [] c = "h" -> "H" [] c = "w" -> "W" [] c = "p" -> "P"
                [] c = "x" -> "X"]

\* str.lower on one character
LowerChar(c) ==
    IF \E l \in DOMAIN UpperOf : UpperOf[l] = c
    THEN CHOOSE l \in DOMAIN UpperOf : UpperOf[l] = c
    ELSE c

\* str.lower
Lower(t) == [i \in 1..Len(t) |-> LowerChar(t[i])]

\* k in t  (Python substring test; the empty string is in every string)
Contains(t, k) ==
    \E i \in 1..(Len(t) - Len(k) + 1) : SubSeq(t, i, i + Len(k) - 1) = k

IsSpace(c) == c \in {" ", "\n"}

\* str.strip
Strip(t) ==
    IF \A i \in 1..Len(t) : IsSpace(t[i]) THEN <<>>
    ELSE LET a == CHOOSE i \in 1..Len(t) :
                      ~IsSpace(t[i]) /\ \A j \in 1..(i-1) : IsSpace(t[j])
             b == CHOOSE i \in 1..Len(t) :
                      ~IsSpace(t[i]) /\ \A j \in (i+1)..Len(t) : IsSpace(t[j])
         IN SubSeq(t, a, b)

\* " ".join(texts)
RECURSIVE JoinSpace(_)
JoinSpace(texts) ==
    IF Len(texts) = 0 THEN <<>>
    ELSE IF Len(texts) = 1 THEN texts[1]
    ELSE texts[1] \o <<" ">> \o JoinSpace(Tail(texts))

\* any(k in t for k in kws), kws a list
AnyIn(kws, t) == \E i \in 1..Len(kws) : Contains(t, kws[i])

\* dict.get(k, default)
Get(d, k, default) == IF k \in DOMAIN d THEN d[k] ELSE default

\* the empty dict
EmptyDict == [k \in {} |-> <<>>]

(***************************************************************************)
(* Configuration files and the loader.                                     *)
(* A file is [ok |-> FALSE] when it is missing or does not parse (the      *)
(* reader then returns its default) and [ok |-> TRUE, v |-> content]       *)
(* otherwise.  A JSON object is a function from its keys; faq_keys.json,   *)
(* whose iteration order matters, is the list of its items.                *)
(***************************************************************************)
FileNames == {"settings.json", "crisis.json", "faq.json", "faq_keys.json",
              "psy_words.json", "system_prompt.md", "suggestions.json",
              "closing.txt", "patterns.json"}

ALLOWED_FILES == FileNames

Missing == [ok |-> FALSE, v |-> <<>>]
Content(v) == [ok |-> TRUE, v |-> v]

\* _read_json / _read_text: the content, or the default on any exception
ReadOr(file, default) == IF file.ok THEN file.v ELSE default

\* the {{a.b}} references the model's texts use, with their dotted paths
PlaceholderPath ==
    [tok \in {"{{clinic.name}}", "{{ clinic.phone }}", "{{settings.motto}}"} |->
        CASE tok = "{{clinic.name}}"    -> <<"clinic", "name">>
          [] tok = "{{ clinic.phone }}" -> <<"clinic", "phone">>
          [] tok = "{{settings.motto}}" -> <<"settings", "motto">>]

\* repl: the value at parts[1].parts[2] of ctx, or the reference verbatim
TemplateToken(tok, ctx) ==
    IF tok \notin DOMAIN PlaceholderPath THEN tok
    ELSE LET parts == PlaceholderPath[tok]
         IN IF parts[1] \in DOMAIN ctx /\ parts[2] \in DOMAIN ctx[parts[1]]
            THEN ctx[parts[1]][parts[2]]
            ELSE tok

\* _template
Template(s, ctx) == [i \in 1..Len(s) |-> TemplateToken(s[i], ctx)]

\* Config._load_all
LoadAll(fs) ==
    LET settings == ReadOr(fs["settings.json"], EmptyDict)
        clinic   == Get(settings, "clinic", EmptyDict)
        ctx      == [clinic |-> clinic, settings |-> settings]
        crisis   == ReadOr(fs["crisis.json"], [keywords |-> <<>>, message |-> <<>>])
        faq      == ReadOr(fs["faq.json"], EmptyDict)
    IN [settings      |-> settings,
        clinic        |-> clinic,
        crisis        |-> [keywords |-> crisis.keywords,
                           message  |-> Template(Get(crisis, "message", <<>>), ctx)],
        faq           |-> [k \in DOMAIN faq |-> Template(faq[k], ctx)],
        faq_keys      |-> ReadOr(fs["faq_keys.json"], <<>>),
        psy_words     |-> ReadOr(fs["psy_words.json"], <<>>),
        system_prompt |-> Template(Strip(ReadOr(fs["system_prompt.md"], <<>>)), ctx),
        suggestions   |-> ReadOr(fs["suggestions.json"], EmptyDict),
        closing       |-> Template(Strip(ReadOr(fs["closing.txt"], <<>>)), ctx),
        patterns      |-> ReadOr(fs["patterns.json"], EmptyDict)]

\* Config.reload: the bundle after the call; it is loaded again when forced or
\* when some file's mtime is not the recorded one
Reload(force) == IF force \/ stale THEN LoadAll(files) ELSE CFG

(***************************************************************************)
(* Classifiers.  The module globals they read, CFG.data and PATS, are the   *)
(* parameters cfg and pats.                                                *)
(***************************************************************************)
\* a compiled pattern, or None
NoPattern == [some |-> FALSE, s |-> <<>>]

\* c(name) of _compile_patterns: re.compile(s, re.I) if s else None
CompileOne(pat, name) ==
    LET s == Get(pat, name, <<>>)
    IN IF s # <<>> THEN [some |-> TRUE, s |-> s] ELSE NoPattern

\* _compile_patterns, of the bundle's patterns
_compile_patterns(cfg) ==
    [greet  |-> CompileOne(cfg.patterns, "greeting"),
     thanks |-> CompileOne(cfg.patterns, "thanks"),
     ack    |-> CompileOne(cfg.patterns, "ack"),
     who    |-> CompileOne(cfg.patterns, "who"),
     can    |-> CompileOne(cfg.patterns, "can"),
     about  |-> CompileOne(cfg.patterns, "about")]

\* p and p.search(t): the patterns are literals compiled with re.I
Search(p, t) == p.some /\ Contains(Lower(t), Lower(p.s))

\* is_crisis under bundle cfg: the text is lowered, the keywords are not
is_crisis(cfg, text) == AnyIn(cfg.crisis.keywords, Lower(text))

crisis_message(cfg) == cfg.crisis.message

None == <<"None">>

\* match_faq under bundle cfg: the answer of the FIRST key one of whose trigger
\* words is in the lowered text, None when that key has no answer
match_faq(cfg, text) ==
    LET t    == Lower(text)
        keys == cfg.faq_keys
        hits == {i \in 1..Len(keys) : AnyIn(keys[i].kws, t)}
    IN IF hits = {} THEN None
       ELSE LET first == CHOOSE i \in hits : \A j \in hits : i <= j
            IN Get(cfg.faq, keys[first].k, None)

\* `if faq_ans:` None and the empty string are falsy
Truthy(ans) == ans # None /\ ans # <<>>

\* is_psychology_domain under bundle cfg
is_psychology_domain(cfg, texts) == AnyIn(cfg.psy_words, Lower(JoinSpace(texts)))

\* is_smalltalk with compiled patterns pats
is_smalltalk(pats, text) ==
    LET t == Strip(text)
    IN IF t = <<>> THEN TRUE
       ELSE Search(pats.greet, t) \/ Search(pats.thanks, t) \/ Search(pats.ack, t)

\* the literals of match_meta_query, each word abbreviated to one letter:
\* u = "kamu", y = "curhatkuy"; q stands for the inquiry words (siapa, apa,
\* jelaskan, tentang, perkenalkan, kenalan) and b for the capability words
\* (bisa, fitur, kemampuan, fungsi)
SelfWords == << <<"u">>, <<"y">> >>
Curhatkuy == <<"y">>
InquiryWords == << <<"q">> >>
CapabilityWords == << <<"b">> >>

\* match_meta_query with compiled patterns pats
match_meta_query(pats, text) ==
    LET t == Strip(text)
        l == Lower(t)
    IN IF t = <<>> THEN "none"
       ELSE IF Search(pats.who, t) THEN "who"
       ELSE IF Search(pats.can, t) THEN "can"
       ELSE IF Search(pats.about, t) THEN "about"
       ELSE IF AnyIn(SelfWords, l) /\ AnyIn(InquiryWords, l)
            THEN IF AnyIn(CapabilityWords, l) THEN "can"
                 ELSE IF Contains(l, Curhatkuy) THEN "about"
                 ELSE "who"
       ELSE "none"

(***************************************************************************)
(* JSON values of the classification output: tagged, so that a string, a   *)
(* number, null and a list can be told apart.  Numbers are confidences in  *)
(* units of 1/10000.                                                      *)
(***************************************************************************)
Str(s)  == [t |-> "str",  s |-> s,  n |-> 0]
Num(n)  == [t |-> "num",  s |-> "", n |-> n]
Null    == [t |-> "null", s |-> "", n |-> 0]
List    == [t |-> "list", s |-> "", n |-> 0]
\* a key the response does not carry
Absent  == [t |-> "absent", s |-> "", n |-> 0]

\* tokens of a raw model output
Prose      == [kind |-> "prose", key |-> "", val |-> Null]
Open       == [kind |-> "{",     key |-> "", val |-> Null]
Close      == [kind |-> "}",     key |-> "", val |-> Null]
Field(k,v) == [kind |-> "field", key |-> k,  val |-> v]

\* json.loads of a brace-delimited substring: an object when everything
\* between the braces is a key/value pair, JSONDecodeError otherwise
IsJsonObject(sub) ==
    /\ Len(sub) >= 2
    /\ sub[1].kind = "{"
    /\ sub[Len(sub)].kind = "}"
    /\ \A i \in 2..(Len(sub) - 1) : sub[i].kind = "field"

\* parse_json_obj with a non-greedy pattern: the span ends at the FIRST "}"
parse_json_obj_first(s) ==
    LET opens  == {i \in 1..Len(s) : s[i].kind = "{"}
        first  == CHOOSE i \in opens : \A j \in opens : i <= j
        closes == {i \in 1..Len(s) : s[i].kind = "}" /\ opens # {} /\ i > first}
        last   == CHOOSE i \in closes : \A j \in closes : i <= j
        sub    == SubSeq(s, first, last)
        keys   == {sub[i].key : i \in 2..(Len(sub) - 1)}
    IN IF opens = {} \/ closes = {} THEN EmptyDict
       ELSE IF ~IsJsonObject(sub) THEN EmptyDict
       ELSE [k \in keys |->
               LET at == CHOOSE i \in 2..(Len(sub) - 1) : sub[i].key = k
               IN sub[at].val]

\* parse_json_obj: re.search(r"\{.*\}", s, re.S) spans from the first "{" to
\* the LAST "}" after it; the dict json.loads gives for it, {} when there is
\* no such span or it does not parse
parse_json_obj(s) ==
    LET opens  == {i \in 1..Len(s) : s[i].kind = "{"}
        first  == CHOOSE i \in opens : \A j \in opens : i <= j
        closes == {i \in 1..Len(s) : s[i].kind = "}" /\ opens # {} /\ i > first}
        last   == CHOOSE i \in closes : \A j \in closes : j <= i
        sub    == SubSeq(s, first, last)
        keys   == {sub[i].key : i \in 2..(Len(sub) - 1)}
    IN IF opens = {} \/ closes = {} THEN EmptyDict
       ELSE IF ~IsJsonObject(sub) THEN EmptyDict
       ELSE [k \in keys |->
               LET at == CHOOSE i \in 2..(Len(sub) - 1) :
                            sub[i].key = k /\ \A j \in (i+1)..(Len(sub) - 1) : sub[j].key # k
               IN sub[at].val]

\* strings float() accepts, with their values
NumericStrings == [s \in {"0.9"} |-> 9000]

\* float(confidence) if confidence is not None else None, None on any exception
ToFloat(v) ==
    CASE v.t = "num" -> v
      [] v.t = "str" -> IF v.s \in DOMAIN NumericStrings THEN Num(NumericStrings[v.s]) ELSE Null
      [] OTHER       -> Null

\* round(x, 3) of a non-negative x in units of 1/10000 (ties to even)
Round3(n) ==
    LET q == n \div 10
        r == n % 10
    IN IF r < 5 THEN q * 10
       ELSE IF r > 5 THEN (q + 1) * 10
       ELSE IF q % 2 = 0 THEN q * 10 ELSE (q + 1) * 10

(***************************************************************************)
(* Sessions.                                                               *)
(***************************************************************************)
Max(a, b) == IF a >= b THEN a ELSE b

\* the table's size: entries under caller-chosen ids and under uuid4 ids
TableLen(tbl, an) == Cardinality(DOMAIN tbl) + BagCardinality(an)

\* SweepRemoves with `<=` for `<`
SweepRemovesAtCutoff(rec, cutoff) == rec.ts <= cutoff \/ rec.ended

\* `ts < cutoff or ended` of the sweep
SweepRemoves(rec, cutoff) == rec.ts < cutoff \/ rec.ended

\* get_sess with the sweep judging the requested record by the timestamp it
\* had before the refresh
get_sessSweepFirst(sid) ==
    LET old    == IF sid \in DOMAIN chat_sessions
                  THEN chat_sessions[sid]
                  ELSE [turns |-> 0, texts |-> <<>>, ended |-> FALSE, ts |-> now]
        s      == [old EXCEPT !.ts = now]
        tbl    == [k \in DOMAIN chat_sessions \cup {sid} |->
                     IF k = sid THEN s ELSE chat_sessions[k]]
        cutoff == now - TTL
        keep   == {k \in DOMAIN tbl :
                     ~SweepRemoves(IF k = sid THEN old ELSE tbl[k], cutoff)}
        keepTs == {t \in DOMAIN anon : ~(t < cutoff)}
    IN IF TableLen(tbl, anon) % SweepEvery = 0
       THEN [s |-> s, tbl |-> [k \in keep |-> tbl[k]], an |-> [t \in keepTs |-> anon[t]]]
       ELSE [s |-> s, tbl |-> tbl, an |-> anon]

\* get_sess(sid): the record it returns, and the table it leaves.  The record
\* is created or its ts refreshed; then, when the table's size is a multiple
\* of SweepEvery, every expired or ended entry is deleted, the returned
\* record's own entry included.
get_sess(sid) ==
    LET s      == IF sid \in DOMAIN chat_sessions
                  THEN [chat_sessions[sid] EXCEPT !.ts = now]
                  ELSE [turns |-> 0, texts |-> <<>>, ended |-> FALSE, ts |-> now]
        tbl    == [k \in DOMAIN chat_sessions \cup {sid} |->
                     IF k = sid THEN s ELSE chat_sessions[k]]
        cutoff == now - TTL
        keep   == {k \in DOMAIN tbl : ~SweepRemoves(tbl[k], cutoff)}
        keepTs == {t \in DOMAIN anon : ~(t < cutoff)}
    IN IF TableLen(tbl, anon) % SweepEvery = 0
       THEN [s |-> s, tbl |-> [k \in keep |-> tbl[k]], an |-> [t \in keepTs |-> anon[t]]]
       ELSE [s |-> s, tbl |-> tbl, an |-> anon]

\* get_sess(str(uuid.uuid4())): the id is fresh, the record new
get_sess_uuid ==
    LET s      == [turns |-> 0, texts |-> <<>>, ended |-> FALSE, ts |-> now]
        an     == anon (+) SetToBag({now})
        cutoff == now - TTL
        keep   == {k \in DOMAIN chat_sessions : ~SweepRemoves(chat_sessions[k], cutoff)}
        keepTs == {t \in DOMAIN an : ~(t < cutoff)}
    IN IF TableLen(chat_sessions, an) % SweepEvery = 0
       THEN [s |-> s, tbl |-> [k \in keep |-> chat_sessions[k]], an |-> [t \in keepTs |-> an[t]]]
       ELSE [s |-> s, tbl |-> chat_sessions, an |-> an]

\* the table once the handler has written s2 into the record get_sess gave
\* it: the record is the table's entry unless the sweep deleted that entry
WriteBack(g, sid, s2) ==
    IF sid \in DOMAIN g.tbl THEN [g.tbl EXCEPT ![sid] = s2] ELSE g.tbl

(***************************************************************************)
(* Replies.                                                                *)
(***************************************************************************)
EndedReply == <<"Sesi ini sudah berakhir. Klik 'Mulai Sesi Baru' untuk memulai lagi.">>
SmalltalkReply == <<"Halo! Aku siap bantu seputar psikologi atau FAQ klinik.">>
RedirectReply == <<"Maaf, aku fokus pada topik psikologi & FAQ klinik.">>
DefaultFallback == <<"Baik, terima kasih sudah berbagi.">>
DefaultClinicName == "CurhatKuy"
NonDomain == "non_psikologi"

IntText == [n \in 0..9 |->
              CASE n = 0 -> "0" [] n = 1 -> "1" [] n = 2 -> "2" [] n = 3 -> "3"
                [] n = 4 -> "4" [] n = 5 -> "5" [] n = 6 -> "6" [] n = 7 -> "7"
                [] n = 8 -> "8" [] n = 9 -> "9"]

\* the closing text used when closing.txt is empty
DefaultClosing(max_turns) ==
    <<"Sesi chat berakhir (kebijakan ", IntText[max_turns], " pesan).">>

\* the three meta replies
MetaReply(cfg, meta) ==
    LET name == Get(cfg.clinic, "name", DefaultClinicName)
    IN CASE meta = "who" -> <<"### Aku asisten ", name>>
         [] meta = "can" -> <<"### Yang bisa kulakukan">>
         [] OTHER        -> <<"### Tentang ", name>>

\* the reply of the terminating call
WithSuggestion(reply, label, closing) ==
    reply \o <<"\n\nDari obrolan kita, sepertinya kamu cocok berkonsultasi dengan **",
               label, "**. Mau jadwalkan sesi?\n">> \o closing

WithClosing(reply, closing) == reply \o <<"\n\n">> \o closing

(***************************************************************************)
(* The /chat handler from `if sess["ended"]` to its return.                *)
(***************************************************************************)
\* a response body; rule names the return statement that produced it, gen and
\* cls tell whether gemini_generate was called for the reply and for the
\* classification, combined is the transcript window the prompt was built on,
\* data the bundle GET /admin/config returns
Body(rule, reply, end, remaining) ==
    [status |-> 200, rule |-> rule, reply |-> reply, end |-> end,
     remaining |-> remaining, handoff |-> FALSE, category |-> Absent,
     confidence |-> Absent, gen |-> FALSE, cls |-> FALSE, combined |-> <<>>,
     data |-> EmptyDict]

\* an unhandled exception: 500 Internal Server Error
ServerError(gen, combined) ==
    [status |-> 500, rule |-> "error", reply |-> <<>>, end |-> FALSE,
     remaining |-> 0, handoff |-> FALSE, category |-> Absent,
     confidence |-> Absent, gen |-> gen, cls |-> TRUE, combined |-> combined,
     data |-> EmptyDict]

max_turns_of(cfg) == Get(cfg.settings, "max_turns", DefaultMaxTurns)
conf_thr_of(cfg) == Get(cfg.settings, "classify_confidence", DefaultConfThr)
closing_of(cfg) ==
    IF cfg.closing # <<>> THEN cfg.closing ELSE DefaultClosing(max_turns_of(cfg))
fallback_of(cfg) == Get(cfg.settings, "reply_fallback", DefaultFallback)

\* Remaining without the floor at 0
RemainingNoFloor(cfg, sess) == max_turns_of(cfg) - sess.turns

\* remaining = max(0, max_turns - sess["turns"])
Remaining(cfg, sess) == Max(0, max_turns_of(cfg) - sess.turns)

\* sess["texts"][-max_turns:]
LastN(texts, n) ==
    IF n = 0 \/ n >= Len(texts) THEN texts
    ELSE SubSeq(texts, Len(texts) - n + 1, Len(texts))

\* TakeTurn without the append
TakeTurnNoAppend(sess, user_message) == [sess EXCEPT !.turns = @ + 1]

\* sess["turns"] += 1; sess["texts"].append(user_message)
TakeTurn(sess, user_message) ==
    [sess EXCEPT !.turns = @ + 1, !.texts = Append(@, user_message)]

\* `category in suggestions and (confidence is None or confidence >= conf_thr)`
Recommends(cfg, category, confidence) ==
    /\ category.t = "str"
    /\ category.s \in DOMAIN cfg.suggestions
    /\ (confidence.t = "null" \/ confidence.n >= conf_thr_of(cfg))

\* lines 286-310: the turn limit is reached.  raw is what gemini_generate
\* returned for the classification prompt
Terminate(cfg, sess, reply, called, raw) ==
    LET combined   == JoinSpace(LastN(sess.texts, max_turns_of(cfg)))
        cat_raw    == IF raw # <<>> THEN raw ELSE <<Open, Close>>
        dataj      == parse_json_obj(cat_raw)
        category   == Get(dataj, "category", Str(NonDomain))
        confidence == ToFloat(Get(dataj, "confidence", Null))
        closing    == closing_of(cfg)
        final      == IF Recommends(cfg, category, confidence)
                      THEN WithSuggestion(reply, cfg.suggestions[category.s], closing)
                      ELSE WithClosing(reply, closing)
    IN IF category.t = "list"
       THEN \* `category in suggestions` raises TypeError: unhashable type
            [s |-> sess, r |-> ServerError(called, combined)]
       ELSE [s |-> [sess EXCEPT !.ended = TRUE],
             r |-> [Body("terminated", final, TRUE, 0) EXCEPT
                      !.category = category,
                      !.confidence = IF confidence.t = "num"
                                     THEN Num(Round3(confidence.n)) ELSE Null,
                      !.gen = called, !.cls = TRUE, !.combined = combined]]

\* lines 273-312: the substantive message
Substantive(cfg, sess, user_message, gen, raw) ==
    LET s1     == IF user_message # <<>> THEN TakeTurn(sess, user_message) ELSE sess
        domain == is_psychology_domain(cfg, s1.texts)
        reply  == IF ~domain THEN RedirectReply
                  ELSE IF gen # <<>> THEN gen ELSE fallback_of(cfg)
    IN IF s1.turns >= max_turns_of(cfg)
       THEN Terminate(cfg, s1, reply, domain, raw)
       ELSE [s |-> s1,
             r |-> [Body("continued", reply, FALSE, Remaining(cfg, s1)) EXCEPT
                      !.gen = domain]]

\* EndedBranch with the turn counted before the ended test
EndedBranchTakesTurn(sess) ==
    [s |-> [sess EXCEPT !.turns = @ + 1], r |-> Body("ended", EndedReply, TRUE, 0)]

\* lines 240-241: the session has ended
EndedBranch(sess) == [s |-> sess, r |-> Body("ended", EndedReply, TRUE, 0)]

\* lines 243-245: a crisis keyword
CrisisBranch(cfg, sess) ==
    [s |-> [sess EXCEPT !.ended = TRUE],
     r |-> [Body("crisis", crisis_message(cfg), TRUE, 0) EXCEPT !.handoff = TRUE]]

\* FaqBranch counting the turn without appending the message
FaqBranchNoAppend(cfg, sess, user_message, faq_ans) ==
    LET s1 == [sess EXCEPT !.turns = @ + 1]
    IN [s |-> s1, r |-> Body("faq", faq_ans, FALSE, Remaining(cfg, s1))]

\* FaqBranch closing the session when the FAQ turn reaches max_turns
FaqBranchEndsAtLimit(cfg, sess, user_message, faq_ans) ==
    LET s1 == TakeTurn(sess, user_message)
    IN IF s1.turns >= max_turns_of(cfg)
       THEN [s |-> [s1 EXCEPT !.ended = TRUE], r |-> Body("faq", faq_ans, TRUE, 0)]
       ELSE [s |-> s1, r |-> Body("faq", faq_ans, FALSE, Remaining(cfg, s1))]

\* lines 249-252: a FAQ answer, counted as a turn
FaqBranch(cfg, sess, user_message, faq_ans) ==
    LET s1 == TakeTurn(sess, user_message)
    IN [s |-> s1, r |-> Body("faq", faq_ans, FALSE, Remaining(cfg, s1))]

\* lines 256-264: a meta query
MetaBranch(cfg, sess, meta) ==
    [s |-> sess, r |-> Body("meta", MetaReply(cfg, meta), FALSE, Remaining(cfg, sess))]

\* lines 267-271: small talk
SmalltalkBranch(cfg, sess) ==
    [s |-> sess, r |-> Body("smalltalk", SmalltalkReply, FALSE, Remaining(cfg, sess))]

\* ChatBody with the FAQ match made before the crisis check
ChatBodyFaqFirst(cfg, pats, sess, user_message, gen, raw) ==
    LET faq_ans == match_faq(cfg, user_message)
        meta    == match_meta_query(pats, user_message)
    IN IF sess.ended THEN EndedBranch(sess)
       ELSE IF Truthy(faq_ans) THEN FaqBranch(cfg, sess, user_message, faq_ans)
       ELSE IF is_crisis(cfg, user_message) THEN CrisisBranch(cfg, sess)
       ELSE IF meta # "none" THEN MetaBranch(cfg, sess, meta)
       ELSE IF is_smalltalk(pats, user_message) THEN SmalltalkBranch(cfg, sess)
       ELSE Substantive(cfg, sess, user_message, gen, raw)

\* ChatBody with the crisis check made before the ended check
ChatBodyCrisisFirst(cfg, pats, sess, user_message, gen, raw) ==
    LET faq_ans == match_faq(cfg, user_message)
        meta    == match_meta_query(pats, user_message)
    IN IF is_crisis(cfg, user_message) THEN CrisisBranch(cfg, sess)
       ELSE IF sess.ended THEN EndedBranch(sess)
       ELSE IF Truthy(faq_ans) THEN FaqBranch(cfg, sess, user_message, faq_ans)
       ELSE IF meta # "none" THEN MetaBranch(cfg, sess, meta)
       ELSE IF is_smalltalk(pats, user_message) THEN SmalltalkBranch(cfg, sess)
       ELSE Substantive(cfg, sess, user_message, gen, raw)

\* lines 240-312: the record and the response the handler leaves, given the
\* record get_sess returned, the stripped message and the outputs the two
\* gemini_generate calls would give
ChatBody(cfg, pats, sess, user_message, gen, raw) ==
    LET faq_ans == match_faq(cfg, user_message)
        meta    == match_meta_query(pats, user_message)
    IN IF sess.ended THEN EndedBranch(sess)
       ELSE IF is_crisis(cfg, user_message) THEN CrisisBranch(cfg, sess)
       ELSE IF Truthy(faq_ans) THEN FaqBranch(cfg, sess, user_message, faq_ans)
       ELSE IF meta # "none" THEN MetaBranch(cfg, sess, meta)
       ELSE IF is_smalltalk(pats, user_message) THEN SmalltalkBranch(cfg, sess)
       ELSE Substantive(cfg, sess, user_message, gen, raw)

\* /status, lines 219-221
StatusBody(cfg, sess) ==
    Body("status", <<>>, sess.ended, IF sess.ended THEN 0 ELSE Remaining(cfg, sess))

(***************************************************************************)
(* Inputs.                                                                 *)
(***************************************************************************)
Sids == {"s1", "s2"}

\* The configuration the sessions run under.  Crisis keywords "c" and "K"
\* (one configured with a capital), FAQ trigger "f", domain word "p",
\* greeting pattern "h", who-pattern "w".
BaseSettings ==
    [max_turns |-> CfgMaxTurns, classify_confidence |-> 4000,
     admin_enabled |-> TRUE, admin_token |-> "tok",
     clinic |-> [name |-> "Klinik"]]

BaseFiles ==
    [f \in FileNames |->
       CASE f = "settings.json"    -> Content(BaseSettings)
         [] f = "crisis.json"      ->
               Content([keywords |-> << <<"c">>, <<"K">> >>,
                        message  |-> <<"Kamu tidak sendiri. Hubungi ", "{{ clinic.phone }}",
                                       " atau ", "{{clinic.name}}">>])
         [] f = "faq.json"         -> Content([jam |-> <<"Buka 09-17 di ", "{{clinic.name}}">>])
         [] f = "faq_keys.json"    -> Content(<< [k |-> "jam", kws |-> << <<"f">> >>] >>)
         [] f = "psy_words.json"   -> Content(<< <<"p">> >>)
         [] f = "system_prompt.md" -> Content(<<"Kamu asisten ", "{{clinic.name}}", "\n">>)
         [] f = "suggestions.json" -> Content([anxiety |-> "Psikolog Klinis"])
         [] f = "closing.txt"      -> Content(<<"Terima kasih.", "\n">>)
         [] f = "patterns.json"    -> Content([greeting |-> <<"h">>, who |-> <<"w">>])]

\* request messages, as sent (before strip)
Messages ==
    { <<>>, <<"h">>, <<"w">>, <<"f">>, <<"p">>, <<"c">>, <<"C">>, <<"K">>,
      <<"c", "f">>, <<"f", "h">>, <<" ", "p", " ">>, <<"u", "q">> }

\* the requests of the two-session specification: one message per rule on
\* s1, a substantive and a crisis message on s2
CoreRequests ==
    ({"s1"} \X { <<>>, <<"w">>, <<"f">>, <<"p">>, <<"x">>, <<"c">> })
      \cup ({"s2"} \X { <<"p">>, <<"c">> })

\* the messages of the specification with the clock
ClockMessages == { <<"x">>, <<"c">> }

\* what the generative call returns for a reply: nothing, or a text (an
\* answer, or the embedded warning / error string)
GenOutputs == { <<>>, <<"Terima kasih sudah bercerita.">> }

\* what the generative call returns for the classification prompt
ClsOutputs ==
    { <<Open, Field("category", Str("anxiety")), Field("confidence", Num(9004)), Close>>,
      <<Prose, Open, Field("category", Str("anxiety")), Field("confidence", Num(4000)), Close, Prose>>,
      <<Open, Field("category", Str("anxiety")), Field("confidence", Num(3999)), Close>>,
      <<Open, Field("category", Str("anxiety")), Close>>,
      <<Open, Field("confidence", Num(9004)), Close>>,
      <<Open, Field("category", Str("karier")), Field("confidence", Str("0.9")), Close>>,
      <<Open, Field("category", Str("anxiety")), Field("confidence", Str("tinggi")), Close>>,
      <<Open, Field("category", Null), Field("confidence", Null), Close>>,
      <<Open, Field("category", List), Field("confidence", Num(9004)), Close>>,
      <<Open, Field("category", Str("anxiety")), Close, Prose, Open, Close>>,
      <<Open, Prose, Close>>,
      <<Prose>>,
      <<>> }

\* the classification outputs of the two-session specification
CoreClsOutputs ==
    { <<Open, Field("category", Str("anxiety")), Field("confidence", Num(9004)), Close>>,
      <<Open, Field("category", Null), Field("confidence", Null), Close>>,
      <<Prose>> }

\* the classification outputs of the admin specification
AdminClsOutputs ==
    { <<Open, Field("category", Str("anxiety")), Field("confidence", Num(9004)), Close>>,
      <<Open, Field("category", Str("anxiety")), Close, Prose, Open, Close>>,
      <<Prose>> }

\* the messages and classification outputs of the specification with
\* suspended requests
ConcMessages == { <<"p">>, <<"x">>, <<"f">>, <<"c">> }

ConcClsOutputs ==
    { <<Open, Field("category", Str("anxiety")), Field("confidence", Num(9004)), Close>>,
      <<Open, Field("category", List), Field("confidence", Num(9004)), Close>> }

\* the X-Admin-Token header: missing, the configured token, another one
Tokens == {"", "tok", "bad"}

\* settings.json with the admin endpoints off, and on without a token
SettingsOff == [max_turns |-> CfgMaxTurns, clinic |-> [name |-> "Klinik"]]
SettingsNoToken == [max_turns |-> CfgMaxTurns, admin_enabled |-> TRUE]

\* {file, data} bodies of PUT /admin/config: for each allow-listed file a
\* content that makes "x" a keyword (the domain keyword written with a
\* capital) or changes the text, and a file that is not allow-listed
PutBodies ==
    { <<"settings.json", SettingsOff>>,
      <<"settings.json", SettingsNoToken>>,
      <<"crisis.json", [keywords |-> << <<"x">> >>, message |-> <<"Hubungi 119">>]>>,
      <<"faq.json", [jam |-> <<"Buka 10-18">>]>>,
      <<"faq_keys.json", << [k |-> "jam", kws |-> << <<"f">>, <<"x">> >>] >> >>,
      <<"psy_words.json", << <<"p">>, <<"X">> >> >>,
      <<"system_prompt.md", <<"Kamu asisten klinik.">> >>,
      <<"suggestions.json", [anxiety |-> "Psikolog Klinis", non_psikologi |-> "Konselor Umum"]>>,
      <<"closing.txt", <<>> >>,
      <<"patterns.json", [greeting |-> <<"x">>, who |-> <<"w">>]>>,
      <<"notes.txt", <<"catatan">> >> }

\* PUT /admin/config requests: every body with the configured token, two
\* of them without it
PutRequests ==
    ({"tok"} \X PutBodies)
      \cup { <<"", <<"patterns.json", [greeting |-> <<"x">>, who |-> <<"w">>]>> >>,
             <<"bad", <<"settings.json", SettingsOff>> >> }

\* edits made on disk: a file restored, crisis.json deleted, a domain word added
Edits ==
    {<<f, BaseFiles[f]>> : f \in FileNames}
      \cup { <<"crisis.json", Missing>>,
             <<"psy_words.json", Content(<< <<"p">>, <<"x">> >>)>> }

\* the messages of the admin specification
AdminMessages == { <<"x">> }

\* the table holds this many sessions under uuid4 ids when the explored
\* behaviours start (left by as many id-less /status calls at time 0): the
\* sweep runs only when the table's size is a multiple of SweepEvery
Prefill == SweepEvery - Cardinality(Sids)

ClockSteps == {TTL, TTL + 1}

(***************************************************************************)
(* State.                                                                  *)
(***************************************************************************)
NoSess == [turns |-> 0, texts |-> <<>>, ended |-> FALSE, ts |-> 0]

\* resp: the request (op, sid, msg, token, file), what the two gemini_generate
\* calls returned when they were made (genout, raw), what reported said of the
\* id when the request arrived (seen), the response body, and for /chat and
\* /status the record get_sess returned (before) and the record as the handler
\* left it (after)
NoResp ==
    [op |-> "none", sid |-> "", msg |-> <<>>, token |-> "", file |-> "",
     genout |-> <<>>, raw |-> <<>>, seen |-> "no",
     body |-> Body("none", <<>>, FALSE, 0), before |-> NoSess, after |-> NoSess]

Init ==
    /\ files = BaseFiles
    /\ stale = FALSE
    /\ CFG = LoadAll(BaseFiles)
    /\ PATS = _compile_patterns(LoadAll(BaseFiles))
    /\ chat_sessions = [k \in {} |-> 0]
    /\ anon = [t \in {0} |-> Prefill]
    /\ now = 0
    /\ issued = 0
    /\ resp = NoResp
    /\ reported = [k \in Sids |-> "no"]
    /\ inflight = {}

\* reported after a request on sid answered with `end`, the table being tbl
Report(tbl, sid, end) ==
    [k \in Sids |->
       LET r0 == IF k = sid /\ end THEN "live" ELSE reported[k]
       IN IF r0 # "no" /\ k \notin DOMAIN tbl THEN "swept" ELSE r0]

\* chat() from `data = await request.json()` resumed to its return, under
\* bundle cfg.  gen and raw are what gemini_generate returns on this call, raw
\* among raws; they are drawn only when the call is made.
ChatResume(cfg, sid, message, raws) ==
    \E g \in {get_sess(sid)} :
    \E dry \in {ChatBody(cfg, PATS, g.s, Strip(message), <<>>, <<>>)} :
    \E gen \in IF dry.r.gen THEN GenOutputs ELSE {<<>>},
       raw \in IF dry.r.cls THEN raws ELSE {<<>>} :
    \E out \in {ChatBody(cfg, PATS, g.s, Strip(message), gen, raw)} :
       /\ out.s.turns <= TurnsCap
       /\ chat_sessions' = WriteBack(g, sid, out.s)
       /\ anon' = g.an
       /\ resp' = [op |-> "chat", sid |-> sid, msg |-> message, token |-> "",
                   file |-> "", genout |-> gen, raw |-> raw, seen |-> reported[sid],
                   body |-> out.r, before |-> g.s, after |-> out.s]
       /\ reported' = Report(WriteBack(g, sid, out.s), sid, out.r.end)
       /\ UNCHANGED <<files, PATS, now, issued>>

\* POST /chat with a session id, no other request arriving while this one
\* waits for its body
Chat(sid, message, raws) ==
    \E cfg \in {Reload(FALSE)} :
       /\ ChatResume(cfg, sid, message, raws)
       /\ CFG' = cfg
       /\ stale' = FALSE
       /\ UNCHANGED inflight

\* a /chat request arrives: CFG.reload() runs, then the coroutine is
\* suspended at `await request.json()`
Arrive(slot, message) ==
    /\ \A r \in inflight : r[1] # slot
    /\ inflight' = inflight \cup {<<slot, message>>}
    /\ CFG' = Reload(FALSE)
    /\ stale' = FALSE
    /\ resp' = NoResp
    /\ UNCHANGED <<files, PATS, chat_sessions, anon, now, issued, reported>>

\* a suspended /chat request is resumed and runs to its return: the rest of
\* chat() has no await, and gemini_generate blocks the event loop
Handle(slot, sid, raws) ==
    \E r \in inflight :
       /\ r[1] = slot
       /\ ChatResume(CFG, sid, r[2], raws)
       /\ inflight' = inflight \ {r}
       /\ UNCHANGED <<CFG, stale>>

\* POST /status with a session id
Status(sid) ==
    \E cfg \in {Reload(FALSE)}, g \in {get_sess(sid)} :
    \E r \in {StatusBody(cfg, g.s)} :
       /\ CFG' = cfg
       /\ stale' = FALSE
       /\ chat_sessions' = g.tbl
       /\ anon' = g.an
       /\ resp' = [op |-> "status", sid |-> sid, msg |-> <<>>, token |-> "",
                   file |-> "", genout |-> <<>>, raw |-> <<>>, seen |-> reported[sid],
                   body |-> r, before |-> g.s, after |-> g.s]
       /\ reported' = Report(g.tbl, sid, r.end)
       /\ UNCHANGED <<files, PATS, now, issued, inflight>>

\* POST /status without a session id: the session is created under a uuid4
StatusNew ==
    \E cfg \in {Reload(FALSE)}, g \in {get_sess_uuid} :
    \E r \in {StatusBody(cfg, g.s)} :
       /\ issued < MaxAnonCalls
       /\ issued' = issued + 1
       /\ CFG' = cfg
       /\ stale' = FALSE
       /\ chat_sessions' = g.tbl
       /\ anon' = g.an
       /\ resp' = [op |-> "status", sid |-> "uuid4", msg |-> <<>>, token |-> "",
                   file |-> "", genout |-> <<>>, raw |-> <<>>, seen |-> "no",
                   body |-> r, before |-> g.s, after |-> g.s]
       /\ reported' = Report(g.tbl, "uuid4", FALSE)
       /\ UNCHANGED <<files, PATS, now, inflight>>

\* time passes between two requests
Tick(d) ==
    /\ now + d <= MaxTicks * (TTL + 1)
    /\ now' = now + d
    /\ resp' = NoResp
    /\ UNCHANGED <<files, stale, CFG, PATS, chat_sessions, anon, issued, reported, inflight>>

(***************************************************************************)
(* Admin endpoints and edits of the files.                                 *)
(***************************************************************************)
\* _require_admin without the `not want` test
_require_admin_any_token(cfg, token) ==
    LET want == Get(cfg.settings, "admin_token", "")
    IN IF ~Get(cfg.settings, "admin_enabled", FALSE) THEN 403
       ELSE IF token # want THEN 401
       ELSE 200

\* _require_admin: 200 when it returns, the HTTPException's status otherwise
_require_admin(cfg, token) ==
    LET want == Get(cfg.settings, "admin_token", "")
    IN IF ~Get(cfg.settings, "admin_enabled", FALSE) THEN 403
       ELSE IF want = "" \/ token # want THEN 401
       ELSE 200

\* an admin response
AdminResp(op, token, file, status, data) ==
    [op |-> op, sid |-> "", msg |-> <<>>, token |-> token, file |-> file,
     genout |-> <<>>, raw |-> <<>>, seen |-> "no",
     body |-> [Body(op, <<>>, FALSE, 0) EXCEPT !.status = status, !.data = data],
     before |-> NoSess, after |-> NoSess]

\* the HTTPException leaves everything as it was
Refused(op, token, file, status) ==
    /\ resp' = AdminResp(op, token, file, status, EmptyDict)
    /\ UNCHANGED <<files, stale, CFG, PATS, chat_sessions, anon, now, issued, reported, inflight>>

\* GET /admin/config
AdminGetConfig(token) ==
    \E st \in {_require_admin(CFG, token)} :
       IF st # 200 THEN Refused("admin_get", token, "", st)
       ELSE \E cfg \in {Reload(FALSE)} :
              /\ CFG' = cfg
              /\ stale' = FALSE
              /\ resp' = AdminResp("admin_get", token, "", 200, cfg)
              /\ UNCHANGED <<files, PATS, chat_sessions, anon, now, issued, reported, inflight>>

\* POST /admin/reload
AdminReload(token) ==
    \E st \in {_require_admin(CFG, token)} :
       IF st # 200 THEN Refused("admin_reload", token, "", st)
       ELSE /\ CFG' = Reload(TRUE)
            /\ stale' = FALSE
            /\ resp' = AdminResp("admin_reload", token, "", 200, EmptyDict)
            /\ UNCHANGED <<files, PATS, chat_sessions, anon, now, issued, reported, inflight>>

\* the files at most MaxWrites of which differ from the initial ones
WithinWrites(fs) == Cardinality({f \in FileNames : fs[f] # BaseFiles[f]}) <= MaxWrites

\* PUT /admin/config {file, data}: json.dumps(data) is what json.loads gives
\* back on the reload; a text file is written verbatim
AdminPutConfig(token, fname, data) ==
    \E st \in {_require_admin(CFG, token)} :
       IF st # 200 THEN Refused("admin_put", token, fname, st)
       ELSE IF fname \notin ALLOWED_FILES THEN Refused("admin_put", token, fname, 400)
       ELSE \E fs \in {[files EXCEPT ![fname] = Content(data)]} :
              /\ WithinWrites(fs)
              /\ files' = fs
              /\ CFG' = LoadAll(fs)
              /\ stale' = FALSE
              /\ resp' = AdminResp("admin_put", token, fname, 200, EmptyDict)
              /\ UNCHANGED <<PATS, chat_sessions, anon, now, issued, reported, inflight>>

\* the operator edits, restores or deletes a file under CONFIG_DIR: its mtime
\* is no longer the recorded one
ExternalEdit(fname, content) ==
    \E fs \in {[files EXCEPT ![fname] = content]} :
       /\ fs # files
       /\ WithinWrites(fs)
       /\ files' = fs
       /\ stale' = TRUE
       /\ resp' = NoResp
       /\ UNCHANGED <<CFG, PATS, chat_sessions, anon, now, issued, reported, inflight>>

\* two sessions, the table at the sweep's threshold
Next ==
    \/ \E rq \in CoreRequests : Chat(rq[1], rq[2], CoreClsOutputs)
    \/ \E sid \in Sids : Status(sid)
    \/ StatusNew

Spec == Init /\ [][Next]_vars

\* one session, every message and every classification output
NextOne ==
    \/ \E m \in Messages : Chat("s1", m, ClsOutputs)
    \/ Status("s1")
    \/ StatusNew

SpecOne == Init /\ [][NextOne]_vars

\* two sessions and the clock
NextClock ==
    \/ \E sid \in Sids, m \in ClockMessages : Chat(sid, m, {<<>>})
    \/ \E sid \in Sids : Status(sid)
    \/ StatusNew
    \/ \E d \in ClockSteps : Tick(d)

SpecClock == Init /\ [][NextClock]_vars

\* one session, the admin endpoints and edits of the files
NextAdmin ==
    \/ \E m \in AdminMessages : Chat("s1", m, AdminClsOutputs)
    \/ \E tok \in Tokens : AdminGetConfig(tok)
    \/ \E tok \in Tokens : AdminReload(tok)
    \/ \E rq \in PutRequests : AdminPutConfig(rq[1], rq[2][1], rq[2][2])
    \/ \E ed \in Edits : ExternalEdit(ed[1], ed[2])

SpecAdmin == Init /\ [][NextAdmin]_vars

\* one session, /chat requests suspended and resumed in any order
NextConc ==
    \/ \E slot \in 1..MaxInflight, m \in ConcMessages : Arrive(slot, m)
    \/ \E slot \in 1..MaxInflight : Handle(slot, "s1", ConcClsOutputs)
    \/ Status("s1")

SpecConc == Init /\ [][NextConc]_vars

(***************************************************************************)
(* Claims.                                                                 *)
(***************************************************************************)
IsChat == resp.op = "chat"
IsSessionCall == resp.op \in {"chat", "status"}

\* the fixed "session ended" reply, with end = true and remaining = 0
EndedResponse ==
    /\ resp.body.status = 200
    /\ resp.body.reply = EndedReply
    /\ resp.body.end
    /\ resp.body.remaining = 0
    /\ ~resp.body.handoff

\* C1 as claimed: once a response for a session id has reported end = true,
\* every later /chat call with that id gets the "session ended" reply with
\* end = true and remaining = 0, sweeps included.
C1_EndedForever == (IsChat /\ resp.seen # "no") => EndedResponse

\* C1 amended: once a response for a session id has reported end = true,
\* every later /chat call with that id gets the "session ended" reply with
\* end = true and remaining = 0, whatever the message, for as long as the
\* sweep has not deleted the session's record (the call during which the
\* sweep deletes it included).
C1_EndedWhileKept == (IsChat /\ resp.seen = "live") => EndedResponse

\* a crisis message on a reported-ended id, answered during the very call
\* whose sweep deletes the record
C1_Witness ==
    /\ IsChat
    /\ resp.seen = "live"
    /\ is_crisis(CFG, Strip(resp.msg))
    /\ resp.sid \notin DOMAIN chat_sessions
    /\ EndedResponse

\* some configured crisis keyword occurs in the message, case ignored
HasCrisisKeyword(msg) ==
    \E i \in 1..Len(CFG.crisis.keywords) :
        Contains(Lower(msg), Lower(CFG.crisis.keywords[i]))

\* C2 as claimed: on a session that has not ended, at any turn count, a /chat
\* message containing a configured crisis keyword (case ignored) ends the
\* session on that call and returns the crisis message with handoff = true,
\* end = true, remaining = 0, with no turn taken, nothing appended and
\* neither gemini call made.
C2_CrisisEnds ==
    (IsChat /\ ~resp.before.ended /\ HasCrisisKeyword(resp.msg)) =>
        /\ resp.body.reply = crisis_message(CFG)
        /\ resp.body.handoff /\ resp.body.end /\ resp.body.remaining = 0
        /\ resp.after.ended
        /\ resp.after.turns = resp.before.turns
        /\ resp.after.texts = resp.before.texts
        /\ ~resp.body.gen /\ ~resp.body.cls

\* C3: every /chat and /status response has remaining = 0 when end = true and
\* remaining = max(0, max_turns - turns) otherwise, turns being the count the
\* call leaves; remaining is never negative.
C3_Remaining ==
    (IsSessionCall /\ resp.body.status = 200) =>
        LET left == max_turns_of(CFG) - resp.after.turns
        IN /\ resp.body.remaining >= 0
           /\ resp.body.end => resp.body.remaining = 0
           /\ ~resp.body.end => resp.body.remaining = (IF left > 0 THEN left ELSE 0)

\* a FAQ answer on a session already past max_turns: the floor at 0 applies
C3_Witness ==
    /\ IsChat
    /\ resp.body.rule = "faq"
    /\ resp.after.turns > max_turns_of(CFG)
    /\ resp.body.remaining = 0
    /\ ~resp.body.end

\* the table's entry for the id of the last request is the record the
\* handler left
Stored == resp.sid \in DOMAIN chat_sessions /\ chat_sessions[resp.sid] = resp.after

\* the last call reached the substantive-message step
ReachedSubstantive == resp.body.rule \in {"continued", "terminated", "error"}

\* C4: on a session that has not ended, a /chat call answered by the meta or
\* the small-talk rule (the empty message included) leaves turn count,
\* transcript and ended flag as they were; a call answered by the FAQ rule or
\* reaching the substantive step adds exactly 1 to the turn count and appends
\* exactly that (stripped) message to the transcript.
C4_TurnEffects ==
    (IsChat /\ ~resp.before.ended) =>
        /\ resp.body.rule \in {"meta", "smalltalk"} =>
              /\ resp.after.turns = resp.before.turns
              /\ resp.after.texts = resp.before.texts
              /\ ~resp.after.ended
              /\ Stored
        /\ (resp.body.rule = "faq" \/ ReachedSubstantive) =>
              /\ resp.after.turns = resp.before.turns + 1
              /\ resp.after.texts = resp.before.texts \o <<Strip(resp.msg)>>
              /\ Stored

\* the empty message, answered as small talk on a session that has a turn
C4_Witness ==
    /\ IsChat
    /\ resp.msg = <<>>
    /\ resp.body.rule = "smalltalk"
    /\ resp.before.turns = 1
    /\ resp.after.turns = 1

\* C5: a /chat call answered by the FAQ, meta or small-talk rule never sets
\* the ended flag and returns end = false, at every turn count, a FAQ call
\* that brings the count to or past max_turns included.
C5_NoEndOnShortCircuit ==
    (IsChat /\ resp.body.rule \in {"faq", "meta", "smalltalk"}) =>
        /\ ~resp.body.end
        /\ ~resp.after.ended
        /\ Stored

\* a FAQ call that brings the turn count to max_turns or past it
C5_Witness ==
    /\ IsChat
    /\ resp.body.rule = "faq"
    /\ resp.after.turns >= max_turns_of(CFG)
    /\ ~resp.after.ended

\* C6 as claimed: the /chat call whose substantive message brings the turn
\* count to max_turns ends the session: end = true, remaining = 0, a category
\* that is a string, and a confidence that is null or a number rounded to 3
\* decimals, whatever the classification call returned.
C6_TerminationResponse ==
    (IsChat /\ ~resp.before.ended /\ ReachedSubstantive
       /\ resp.after.turns >= max_turns_of(CFG)) =>
        /\ resp.body.status = 200
        /\ resp.body.end
        /\ resp.body.remaining = 0
        /\ resp.after.ended
        /\ resp.body.category.t = "str"
        /\ \/ resp.body.confidence.t = "null"
           \/ resp.body.confidence.t = "num" /\ resp.body.confidence.n % 10 = 0

\* what the five classifiers say of message m under bundle cfg and patterns pats
Decisions(cfg, pats, m) ==
    <<is_crisis(cfg, m), match_faq(cfg, m), is_psychology_domain(cfg, <<m>>),
      is_smalltalk(pats, m), match_meta_query(pats, m)>>

ProbeMessages == { <<"x">>, <<"h">>, <<"f">>, <<"p">>, <<"w">> }

\* C7 as claimed: once PUT /admin/config has written a file and reloaded the
\* bundle, every classifier decision is the one the files' content gives.
C7_PutReflected ==
    (resp.op = "admin_put" /\ resp.body.status = 200) =>
        \A m \in ProbeMessages :
            Decisions(CFG, PATS, m)
              = Decisions(LoadAll(files), _compile_patterns(LoadAll(files)), m)

UnparseableOutputs ==
    { <<Prose>>,
      <<Open, Prose, Close>>,
      <<Open, Field("category", Str("anxiety")), Close, Prose, Open, Close>> }

\* the reply the terminating call builds on when it appends the closing text:
\* the redirect text off-domain, else the generated reply or the fallback
C9_Head ==
    IF ~resp.body.gen THEN RedirectReply
    ELSE IF resp.genout # <<>> THEN resp.genout
    ELSE fallback_of(CFG)

\* the terminating call returned, the session is ended, category and
\* confidence are the defaults
C9_Degraded ==
    /\ resp.body.status = 200
    /\ resp.body.end
    /\ resp.body.remaining = 0
    /\ resp.after.ended
    /\ Stored
    /\ resp.body.confidence = Null
    /\ resp.body.category = Str(NonDomain)

AdminOps == {"admin_get", "admin_reload", "admin_put"}

\* C10: an admin operation reads, reloads or writes the configuration only
\* when the admin-enabled flag is set and the token header equals a non-empty
\* configured token; with the flag unset it fails with 403, with the flag set
\* and a missing, wrong or unconfigured token with 401, and in both cases the
\* bundle and the files are left as they were.
C10_AdminAuth ==
    [][resp'.op \in AdminOps =>
         LET enabled == Get(CFG.settings, "admin_enabled", FALSE)
             want    == Get(CFG.settings, "admin_token", "")
             granted == enabled /\ want # "" /\ resp'.token = want
         IN /\ ~enabled => resp'.body.status = 403
            /\ (enabled /\ ~granted) => resp'.body.status = 401
            /\ ~granted => /\ CFG' = CFG
                           /\ files' = files
                           /\ stale' = stale
                           /\ resp'.body.data = EmptyDict
            /\ granted => resp'.body.status \in {200, 400}]_vars

\* the flag set, no token configured, and a request refused with 401
C10_Witness ==
    /\ resp.op \in AdminOps
    /\ Get(CFG.settings, "admin_enabled", FALSE)
    /\ "admin_token" \notin DOMAIN CFG.settings
    /\ resp.body.status = 401
    /\ resp.token = ""

\* C11 as claimed: between requests every session in the table is either
\* not ended with a turn count below max_turns, or ended: the call on which
\* the turn count reaches max_turns always ends the session.
C11_ActiveBelowLimit ==
    \A k \in DOMAIN chat_sessions :
        chat_sessions[k].ended \/ chat_sessions[k].turns < max_turns_of(CFG)

\* C12: while a record stays in the table, no /chat or /status call lowers its
\* turn count or resets its ended flag, and once its ended flag is set no
\* call changes its turn count or its transcript.
C12_MonotoneRecord ==
    [][\A k \in DOMAIN chat_sessions \cap DOMAIN chat_sessions' :
          /\ chat_sessions'[k].turns >= chat_sessions[k].turns
          /\ chat_sessions[k].ended => chat_sessions'[k].ended
          /\ chat_sessions[k].ended =>
                /\ chat_sessions'[k].turns = chat_sessions[k].turns
                /\ chat_sessions'[k].texts = chat_sessions[k].texts]_vars

\* a /chat call on a record that had ended after taking turns, the record
\* still in the table
C12_Witness ==
    /\ IsChat
    /\ resp.before.ended
    /\ resp.before.turns >= 1
    /\ resp.msg = <<"x">>
    /\ Stored

\* C13 as claimed: the classification call is made only on the /chat call on
\* which a substantive message makes the turn count reach max_turns, and that
\* call sets ended (so it is made at most once per record); it is never made
\* on a crisis, FAQ, meta, small-talk or already-ended call, and neither call
\* of gemini_generate is made for a session whose ended flag is set.
C13_ClassifyOnceAtLimit ==
    IsChat =>
        /\ resp.body.cls =>
              /\ ReachedSubstantive
              /\ ~resp.before.ended
              /\ resp.before.turns < max_turns_of(CFG)
              /\ resp.after.turns >= max_turns_of(CFG)
              /\ resp.after.ended
        /\ resp.body.rule \in {"ended", "crisis", "faq", "meta", "smalltalk"} =>
              ~resp.body.cls
        /\ resp.before.ended => (~resp.body.gen /\ ~resp.body.cls)

\* C14 as claimed: every record's transcript holds at most max_turns entries,
\* under any mix of FAQ and substantive messages, and the classification
\* prompt is built from at most the last max_turns entries of the transcript,
\* in their order.
C14_TranscriptBounded ==
    /\ \A k \in DOMAIN chat_sessions :
          Len(chat_sessions[k].texts) <= max_turns_of(CFG)
    /\ (IsChat /\ resp.body.cls) =>
          LET t == resp.after.texts
              n == max_turns_of(CFG)
          IN resp.body.combined = JoinSpace(SubSeq(t, Max(1, Len(t) - n + 1), Len(t)))

\* the request of the step is a /chat or /status call whose get_sess sweeps:
\* the table, the requested id counted, holds a multiple of SweepEvery entries
C15_Sweeping ==
    LET ids == IF resp'.sid \in Sids THEN DOMAIN chat_sessions \cup {resp'.sid}
               ELSE DOMAIN chat_sessions
        new == IF resp'.sid \in Sids THEN 0 ELSE 1
    IN (Cardinality(ids) + BagCardinality(anon) + new) % SweepEvery = 0

\* C15: a sweep removes exactly the sessions whose timestamp is more than TTL
\* old or whose ended flag is set, and leaves every other session of the table
\* as it was; a session neither expired nor ended is never removed.  The
\* session of the calling request has its timestamp refreshed before the sweep
\* and is removed only if it had ended.
C15_SweepExact ==
    [][IF resp'.op \in {"chat", "status"}
       THEN /\ \A k \in DOMAIN chat_sessions \ {resp'.sid} :
                  LET rec == chat_sessions[k]
                      removed == C15_Sweeping /\ (rec.ts < now - TTL \/ rec.ended)
                  IN /\ (k \in DOMAIN chat_sessions') <=> ~removed
                     /\ ~removed => chat_sessions'[k] = rec
            /\ resp'.sid \in Sids =>
                  ((resp'.sid \in DOMAIN chat_sessions')
                     <=> ~(C15_Sweeping /\ resp'.sid \in DOMAIN chat_sessions
                             /\ chat_sessions[resp'.sid].ended))
            /\ \A t \in DOMAIN anon :
                  CopiesIn(t, anon') =
                     IF C15_Sweeping /\ t < now - TTL THEN 0
                     ELSE CopiesIn(t, anon)
                            + (IF resp'.sid \notin Sids /\ t = now THEN 1 ELSE 0)
       ELSE chat_sessions' = chat_sessions /\ anon' = anon]_vars

\* a sweep, run by a call on s2 more than TTL after the start, has removed
\* every session last used at the start and kept the caller's
C15_Witness ==
    /\ resp.op \in {"chat", "status"}
    /\ resp.sid = "s2"
    /\ now > TTL
    /\ DOMAIN chat_sessions = {"s2"}
    /\ ~chat_sessions["s2"].ended
    /\ reported["s1"] = "no"
    /\ BagCardinality(anon) = 0

\* some configured domain keyword occurs in the joined transcript, case ignored
HasDomainKeyword(texts) ==
    \E i \in 1..Len(CFG.psy_words) :
        Contains(Lower(JoinSpace(texts)), Lower(CFG.psy_words[i]))

\* C16 as claimed: at the substantive step gemini_generate is called for the
\* reply if and only if the transcript, the current message included, contains
\* a domain keyword; otherwise the redirect reply is returned and the turn is
\* still taken.  Hence a transcript that matched before the call never gets the
\* redirect, and a redirect on the turn that reaches max_turns still
\* classifies and ends the session.
C16_DomainGate ==
    (IsChat /\ ReachedSubstantive /\ resp.body.status = 200) =>
        /\ resp.body.gen <=> HasDomainKeyword(resp.after.texts)
        /\ HasDomainKeyword(resp.before.texts) => resp.body.gen
        /\ ~resp.body.gen =>
              /\ SubSeq(resp.body.reply, 1, Len(RedirectReply)) = RedirectReply
              /\ resp.after.turns = resp.before.turns + 1
              /\ resp.after.turns >= max_turns_of(CFG) =>
                    (resp.body.cls /\ resp.after.ended /\ resp.body.end)
        /\ resp.body.gen =>
              SubSeq(resp.body.reply, 1, Len(RedirectReply)) # RedirectReply

\* C17 as claimed: on the terminating call the recommendation is appended to
\* the reply if and only if the parsed category is a key of the suggestion map
\* and the confidence is absent or at least the threshold (equal included); in
\* every other case the closing text alone is appended; in both cases the
\* session is marked ended.
C17_RecommendIff ==
    (IsChat /\ resp.body.cls) =>
        LET dataj      == parse_json_obj(IF resp.raw # <<>> THEN resp.raw ELSE <<Open, Close>>)
            category   == Get(dataj, "category", Str(NonDomain))
            confidence == ToFloat(Get(dataj, "confidence", Null))
            isKey      == category.t = "str" /\ category.s \in DOMAIN CFG.suggestions
            recommend  == isKey /\ (confidence.t = "null" \/ confidence.n >= conf_thr_of(CFG))
        IN /\ resp.body.status = 200
           /\ resp.after.ended
           /\ resp.body.end
           /\ resp.body.reply =
                IF recommend
                THEN C9_Head
                       \o <<"\n\nDari obrolan kita, sepertinya kamu cocok berkonsultasi dengan **",
                            CFG.suggestions[category.s], "**. Mau jadwalkan sesi?\n">>
                       \o closing_of(CFG)
                ELSE C9_Head \o <<"\n\n">> \o closing_of(CFG)

\* C18: in every record of the table, and in the record a /chat or /status
\* call worked on, the turn count is the length of the transcript.
C18_TurnsAreTexts ==
    /\ \A k \in DOMAIN chat_sessions :
          chat_sessions[k].turns = Len(chat_sessions[k].texts)
    /\ IsSessionCall =>
          /\ resp.before.turns = Len(resp.before.texts)
          /\ resp.after.turns = Len(resp.after.texts)

\* a record that took a FAQ turn and a substantive turn
C18_Witness ==
    /\ "s1" \in DOMAIN chat_sessions
    /\ chat_sessions["s1"].turns = 2
    /\ chat_sessions["s1"].texts = << <<"f">>, <<"p">> >>

\* C19: when a /chat call changes the record get_sess gave it (a turn, a
\* transcript entry, the ended flag), the table holds that record under the
\* request's id when the call returns; the sweep inside get_sess removes the
\* record it returns only if that record had already ended.
C19_NoDetachedWrite ==
    /\ (IsChat /\ resp.after # resp.before) => Stored
    /\ (IsSessionCall /\ resp.sid \in Sids /\ resp.sid \notin DOMAIN chat_sessions) =>
          (resp.before.ended /\ resp.after = resp.before)

\* a /chat call more than TTL after the record's last use: its get_sess swept
\* the expired sessions, and the turn it took is in the table
C19_Witness ==
    /\ IsChat
    /\ now > TTL
    /\ resp.before.turns >= 1
    /\ resp.after.turns = resp.before.turns + 1
    /\ BagCardinality(anon) = 0
    /\ Stored

\* a step that resumes a suspended /chat request on a record that takes the
\* turn: the table's record for the id gains exactly that turn and message
C20_TurnAdded ==
    LET sid == resp'.sid
        old == IF sid \in DOMAIN chat_sessions THEN chat_sessions[sid] ELSE NoSess
    IN /\ sid \in DOMAIN chat_sessions'
       /\ chat_sessions'[sid].turns = old.turns + 1
       /\ chat_sessions'[sid].texts = Append(old.texts, Strip(resp'.msg))

\* C20 as claimed: /chat requests in flight together for one session id never
\* lose an update: each one that takes a turn below the limit adds exactly its
\* turn and its message to the record the table holds when it resumes, and two
\* requests in flight together never both make the classification call for
\* the session.
C20_NoLostUpdate ==
    [][(resp'.op = "chat" /\ inflight' # inflight) =>
          /\ resp'.body.rule \in {"faq", "continued"} => C20_TurnAdded
          /\ ~(/\ resp.op = "chat"
               /\ resp.sid = resp'.sid
               /\ resp.body.cls
               /\ resp'.body.cls)]_vars

====
